---- MODULE Spec2Model ----
(***************************************************************************)
(* Renewal opportunity dashboard (renewedCountDash.py): the aggregation    *)
(* done by connect_to_salesforce over the three query results, the         *)
(* scorecard win rate, the conversion table of the "Win Rate Gauge" chart  *)
(* and the re-sorted "Opportunities by Stage" table.                       *)
(*                                                                         *)
(* Python values are represented as follows.  A DataFrame is a sequence of *)
(* rows (records); an empty DataFrame (no rows, no columns) is <<>>.  A    *)
(* dict is a function plus, where iteration order matters, the sequence of *)
(* its keys in insertion order.  None is <<>> and a present string s is    *)
(* <<s>> for the optional Loss_Reason__c field.  A CloseDate string and a  *)
(* week key are the sequences of their characters.  A float that is a quotient a / b * 100 is  *)
(* kept exactly, as the pair <<a * 100, b>>.                               *)
(***************************************************************************)
EXTENDS Integers, Sequences, FiniteSets, TLC

VARIABLES records, pc, stage_df, loss_reason_df, weekly_df,
          total_opportunities, closed_won_count, closed_lost_count,
          other_stages_count, error, win_rate, chart_type, conversion_df

vars == <<records, pc, stage_df, loss_reason_df, weekly_df,
          total_opportunities, closed_won_count, closed_lost_count,
          other_stages_count, error, win_rate, chart_type, conversion_df>>

(***************************************************************************)
(* Bounds of the model.                                                    *)
(***************************************************************************)
\* Largest number of opportunity records the record source holds.
MaxRecords == 3

\* Calendar years of the close dates of the week-key runs.
DateYears == 2024..2026

(***************************************************************************)
(* Generic helpers.                                                        *)
(***************************************************************************)
Range(s) == { s[i] : i \in 1..Len(s) }

\* The sequence s with its elements computed once.
AsSeq(s) == SubSeq(s, 1, Len(s))

RECURSIVE SumSeq(_)
SumSeq(s) == IF s = <<>> THEN 0 ELSE Head(s) + SumSeq(Tail(s))

\* Sum of the Count column of a DataFrame (0 for the empty one).
CountSum(df) == SumSeq([i \in 1..Len(df) |-> df[i].Count])

\* Python dict item assignment d[k] = v: a later assignment to the same key
\* replaces the earlier value.
DictSet(d, k, v) == [x \in (DOMAIN d) \cup {k} |-> IF x = k THEN v ELSE d[x]]

\* dict.get(k, default)
DictGet(d, k, default) == IF k \in DOMAIN d THEN d[k] ELSE default

(***************************************************************************)
(* Reference data.                                                         *)
(***************************************************************************)
\* Keys of the dict returned by get_stage_metadata, in insertion order.
stage_keys ==
  << "New", "Information Gathering", "Rating", "Proposal Generation",
     "Decision Pending", "Pre-Bind Review", "Quote to Bind", "Binding",
     "Billing", "Post-Binding", "Closed Won", "Closed Lost" >>

get_stage_metadata ==
  ( "New"                   :> [probability |-> 10,  order |-> 1,  category |-> "Open"] ) @@
  ( "Information Gathering" :> [probability |-> 20,  order |-> 2,  category |-> "Open"] ) @@
  ( "Rating"                :> [probability |-> 30,  order |-> 3,  category |-> "Open"] ) @@
  ( "Proposal Generation"   :> [probability |-> 40,  order |-> 4,  category |-> "Open"] ) @@
  ( "Decision Pending"      :> [probability |-> 50,  order |-> 5,  category |-> "Open"] ) @@
  ( "Pre-Bind Review"       :> [probability |-> 75,  order |-> 6,  category |-> "Open"] ) @@
  ( "Quote to Bind"         :> [probability |-> 85,  order |-> 7,  category |-> "Open"] ) @@
  ( "Binding"               :> [probability |-> 85,  order |-> 8,  category |-> "Open"] ) @@
  ( "Billing"               :> [probability |-> 95,  order |-> 9,  category |-> "Open"] ) @@
  ( "Post-Binding"          :> [probability |-> 98,  order |-> 10, category |-> "Open"] ) @@
  ( "Closed Won"            :> [probability |-> 100, order |-> 11, category |-> "Closed/Won"] ) @@
  ( "Closed Lost"           :> [probability |-> 0,   order |-> 12, category |-> "Closed/Lost"] )

\* The default of stage_metadata.get(stage_name, {...}).
FallbackMetadata == [probability |-> 0, order |-> 99, category |-> "Unknown"]

get_loss_reasons ==
  << "4 Point Issues", "AOR", "Choosing to Self-Insure",
     "Flood not required - for flood only", "I was lazy",
     "No Buyers Information Received", "No Inspections Received",
     "No Market", "No Response from Buyer", "Paid off Mortgage", "Rate",
     "Rate / Went with another agency",
     "Rate - No Updated Inspections Received", "Sale Fell Through",
     "Service / went with another agency", "Sold", "Unknown",
     "Property Damaged Or Lost" >>

\* The date ranges get_iso_week_calendar lists: iso_weeks[w] is week w of
\* 2025, each date a triple <<year, month, day>>.
iso_weeks ==
  << [from |-> <<2024, 12, 30>>, to |-> <<2025, 1, 5>>],
     [from |-> <<2025, 1, 6>>, to |-> <<2025, 1, 12>>],
     [from |-> <<2025, 1, 13>>, to |-> <<2025, 1, 19>>],
     [from |-> <<2025, 1, 20>>, to |-> <<2025, 1, 26>>],
     [from |-> <<2025, 1, 27>>, to |-> <<2025, 2, 2>>],
     [from |-> <<2025, 2, 3>>, to |-> <<2025, 2, 9>>],
     [from |-> <<2025, 2, 10>>, to |-> <<2025, 2, 16>>],
     [from |-> <<2025, 2, 17>>, to |-> <<2025, 2, 23>>],
     [from |-> <<2025, 2, 24>>, to |-> <<2025, 3, 2>>],
     [from |-> <<2025, 3, 3>>, to |-> <<2025, 3, 9>>],
     [from |-> <<2025, 3, 10>>, to |-> <<2025, 3, 16>>],
     [from |-> <<2025, 3, 17>>, to |-> <<2025, 3, 23>>],
     [from |-> <<2025, 3, 24>>, to |-> <<2025, 3, 30>>],
     [from |-> <<2025, 3, 31>>, to |-> <<2025, 4, 6>>],
     [from |-> <<2025, 4, 7>>, to |-> <<2025, 4, 13>>],
     [from |-> <<2025, 4, 14>>, to |-> <<2025, 4, 20>>],
     [from |-> <<2025, 4, 21>>, to |-> <<2025, 4, 27>>],
     [from |-> <<2025, 4, 28>>, to |-> <<2025, 5, 4>>],
     [from |-> <<2025, 5, 5>>, to |-> <<2025, 5, 11>>],
     [from |-> <<2025, 5, 12>>, to |-> <<2025, 5, 18>>],
     [from |-> <<2025, 5, 19>>, to |-> <<2025, 5, 25>>],
     [from |-> <<2025, 5, 26>>, to |-> <<2025, 6, 1>>],
     [from |-> <<2025, 6, 2>>, to |-> <<2025, 6, 8>>],
     [from |-> <<2025, 6, 9>>, to |-> <<2025, 6, 15>>],
     [from |-> <<2025, 6, 16>>, to |-> <<2025, 6, 22>>],
     [from |-> <<2025, 6, 23>>, to |-> <<2025, 6, 29>>],
     [from |-> <<2025, 6, 30>>, to |-> <<2025, 7, 6>>],
     [from |-> <<2025, 7, 7>>, to |-> <<2025, 7, 13>>],
     [from |-> <<2025, 7, 14>>, to |-> <<2025, 7, 20>>],
     [from |-> <<2025, 7, 21>>, to |-> <<2025, 7, 27>>],
     [from |-> <<2025, 7, 28>>, to |-> <<2025, 8, 3>>],
     [from |-> <<2025, 8, 4>>, to |-> <<2025, 8, 10>>],
     [from |-> <<2025, 8, 11>>, to |-> <<2025, 8, 17>>],
     [from |-> <<2025, 8, 18>>, to |-> <<2025, 8, 24>>],
     [from |-> <<2025, 8, 25>>, to |-> <<2025, 8, 31>>],
     [from |-> <<2025, 9, 1>>, to |-> <<2025, 9, 7>>],
     [from |-> <<2025, 9, 8>>, to |-> <<2025, 9, 14>>],
     [from |-> <<2025, 9, 15>>, to |-> <<2025, 9, 21>>],
     [from |-> <<2025, 9, 22>>, to |-> <<2025, 9, 28>>],
     [from |-> <<2025, 9, 29>>, to |-> <<2025, 10, 5>>],
     [from |-> <<2025, 10, 6>>, to |-> <<2025, 10, 12>>],
     [from |-> <<2025, 10, 13>>, to |-> <<2025, 10, 19>>],
     [from |-> <<2025, 10, 20>>, to |-> <<2025, 10, 26>>],
     [from |-> <<2025, 10, 27>>, to |-> <<2025, 11, 2>>],
     [from |-> <<2025, 11, 3>>, to |-> <<2025, 11, 9>>],
     [from |-> <<2025, 11, 10>>, to |-> <<2025, 11, 16>>],
     [from |-> <<2025, 11, 17>>, to |-> <<2025, 11, 23>>],
     [from |-> <<2025, 11, 24>>, to |-> <<2025, 11, 30>>],
     [from |-> <<2025, 12, 1>>, to |-> <<2025, 12, 7>>],
     [from |-> <<2025, 12, 8>>, to |-> <<2025, 12, 14>>],
     [from |-> <<2025, 12, 15>>, to |-> <<2025, 12, 21>>],
     [from |-> <<2025, 12, 22>>, to |-> <<2025, 12, 28>>] >>

(***************************************************************************)
(* Strings.  TLA+ strings are atoms, so the two string operations of the   *)
(* program are tabulated over the stage names and reasons of the model.    *)
(***************************************************************************)
\* The stage names that are not catalog stages.
UnknownStages == << "Quote-to-Bind", "ClosedWon" >>

\* ''.join(c if c.isalnum() else '_' for c in stage)
column_name ==
  ( "New"                   :> "New" ) @@
  ( "Information Gathering" :> "Information_Gathering" ) @@
  ( "Rating"                :> "Rating" ) @@
  ( "Proposal Generation"   :> "Proposal_Generation" ) @@
  ( "Decision Pending"      :> "Decision_Pending" ) @@
  ( "Pre-Bind Review"       :> "Pre_Bind_Review" ) @@
  ( "Quote to Bind"         :> "Quote_to_Bind" ) @@
  ( "Binding"               :> "Binding" ) @@
  ( "Billing"               :> "Billing" ) @@
  ( "Post-Binding"          :> "Post_Binding" ) @@
  ( "Closed Won"            :> "Closed_Won" ) @@
  ( "Closed Lost"           :> "Closed_Lost" ) @@
  ( "Quote-to-Bind"         :> "Quote_to_Bind" ) @@
  ( "ClosedWon"             :> "ClosedWon" )

\* The stage names and the loss reasons of the model in ascending order of
\* Python's string comparison (by code point).
StringsAscending ==
  << "4 Point Issues", "AOR", "Billing", "Binding",
     "Choosing to Self-Insure", "Closed Lost", "Closed Won", "ClosedWon",
     "Decision Pending", "Flood not required - for flood only",
     "I was lazy", "Information Gathering", "New",
     "No Buyers Information Received", "No Inspections Received",
     "No Market", "No Response from Buyer", "Not Specified",
     "Paid off Mortgage", "Post-Binding", "Pre-Bind Review", "Price",
     "Property Damaged Or Lost", "Proposal Generation", "Quote to Bind",
     "Quote-to-Bind", "Rate", "Rate - No Updated Inspections Received",
     "Rate / Went with another agency", "Rating", "Sale Fell Through",
     "Service / went with another agency", "Sold", "Unknown" >>

StrRank(s) == CHOOSE i \in 1..Len(StringsAscending) : StringsAscending[i] = s

(***************************************************************************)
(* Dates: datetime.datetime.strptime(s, '%Y-%m-%d').date(), isocalendar()  *)
(* and the week key format.                                                *)
(***************************************************************************)
Digits == << "0", "1", "2", "3", "4", "5", "6", "7", "8", "9" >>

IsDigit(c) == c \in Range(Digits)

DigitVal(c) == CHOOSE v \in 0..9 : Digits[v + 1] = c

\* Value of a string of decimal digits.
RECURSIVE DecimalVal(_)
DecimalVal(s) ==
  IF s = <<>> THEN 0
  ELSE DecimalVal(SubSeq(s, 1, Len(s) - 1)) * 10 + DigitVal(s[Len(s)])

\* The fields of s between the "-" separators.
RECURSIVE SplitDash(_)
SplitDash(s) ==
  IF \A i \in 1..Len(s) : s[i] # "-" THEN << s >>
  ELSE LET k == CHOOSE i \in 1..Len(s) :
                  s[i] = "-" /\ \A j \in 1..(i - 1) : s[j] # "-"
       IN  << SubSeq(s, 1, k - 1) >> \o SplitDash(SubSeq(s, k + 1, Len(s)))

\* %Y: exactly four digits.
MatchesY(f) == Len(f) = 4 /\ \A i \in 1..4 : IsDigit(f[i])

\* %m: 1[0-2] | 0[1-9] | [1-9]
MatchesM(f) ==
  /\ Len(f) \in 1..2
  /\ \A i \in 1..Len(f) : IsDigit(f[i])
  /\ DecimalVal(f) \in 1..12

\* %d: 3[01] | [12]\d | 0[1-9] | [1-9] | " "[1-9]
MatchesD(f) ==
  \/ /\ Len(f) \in 1..2
     /\ \A i \in 1..Len(f) : IsDigit(f[i])
     /\ DecimalVal(f) \in 1..31
  \/ /\ Len(f) = 2
     /\ f[1] = " "
     /\ IsDigit(f[2])
     /\ f[2] # "0"

DayVal(f) == IF f[1] = " " THEN DigitVal(f[2]) ELSE DecimalVal(f)

IsLeap(y) == (y % 4 = 0) /\ ((y % 100 # 0) \/ (y % 400 = 0))

DaysInMonth(y, m) ==
  IF m = 2 THEN (IF IsLeap(y) THEN 29 ELSE 28)
  ELSE IF m \in {4, 6, 9, 11} THEN 30 ELSE 31

\* strptime: [ok |-> TRUE, year, month, day] or, where Python raises
\* ValueError (no match, unconverted data, year 0, day out of range),
\* [ok |-> FALSE].
strptime(s) ==
  LET f == SplitDash(s) IN
  IF Len(f) # 3 THEN [ok |-> FALSE]
  ELSE IF ~ (MatchesY(f[1]) /\ MatchesM(f[2]) /\ MatchesD(f[3]))
       THEN [ok |-> FALSE]
  ELSE LET y == DecimalVal(f[1])
           m == DecimalVal(f[2])
           d == DayVal(f[3])
       IN  IF y < 1 \/ d > DaysInMonth(y, m) THEN [ok |-> FALSE]
           ELSE [ok |-> TRUE, year |-> y, month |-> m, day |-> d]

\* Days before January 1st of year y (proleptic Gregorian ordinal).
days_before_year(y) ==
  (y - 1) * 365 + ((y - 1) \div 4) - ((y - 1) \div 100) + ((y - 1) \div 400)

RECURSIVE days_before_month(_, _)
days_before_month(y, m) ==
  IF m = 1 THEN 0 ELSE days_before_month(y, m - 1) + DaysInMonth(y, m - 1)

\* January 1st of year 1 is day 1, a Monday.
ymd_to_ord(y, m, d) == days_before_year(y) + days_before_month(y, m) + d

\* Ordinal of the Monday that starts ISO week 1 of year y.
iso_week1_monday(y) ==
  LET first_day     == ymd_to_ord(y, 1, 1)
      first_weekday == (first_day + 6) % 7
      week1_monday  == first_day - first_weekday
  IN  IF first_weekday > 3 THEN week1_monday + 7 ELSE week1_monday

isocalendar_calendar_year(y, m, d) ==
  LET today == ymd_to_ord(y, m, d)
      w     == (today - iso_week1_monday(y)) \div 7
      wd    == ((today + 6) % 7) + 1
  IN  IF today < iso_week1_monday(y)
      THEN [year |-> y,
            week |-> ((today - iso_week1_monday(y - 1)) \div 7) + 1,
            weekday |-> wd]
      ELSE IF w >= 52 /\ today >= iso_week1_monday(y + 1)
      THEN [year |-> y, week |-> 1, weekday |-> wd]
      ELSE [year |-> y, week |-> w + 1, weekday |-> wd]

\* date.isocalendar(): ISO year, ISO week and ISO weekday.
isocalendar(y, m, d) ==
  LET today == ymd_to_ord(y, m, d)
      w     == (today - iso_week1_monday(y)) \div 7
      wd    == ((today + 6) % 7) + 1
  IN  IF today < iso_week1_monday(y)
      THEN [year |-> y - 1,
            week |-> ((today - iso_week1_monday(y - 1)) \div 7) + 1,
            weekday |-> wd]
      ELSE IF w >= 52 /\ today >= iso_week1_monday(y + 1)
      THEN [year |-> y + 1, week |-> 1, weekday |-> wd]
      ELSE [year |-> y, week |-> w + 1, weekday |-> wd]

\* str(n) for n >= 0, as a sequence of characters.
RECURSIVE DecimalStr(_)
DecimalStr(n) ==
  IF n < 10 THEN << Digits[n + 1] >>
  ELSE DecimalStr(n \div 10) \o << Digits[(n % 10) + 1] >>

\* f"{year}-W{week_num:02d}"
week_key_format(year, week_num) ==
  DecimalStr(year) \o << "-", "W" >>
                   \o (IF week_num < 10 THEN << "0" >> ELSE << >>)
                   \o DecimalStr(week_num)

\* The week key of a parsed close date.
week_key(dt) ==
  LET iso == isocalendar(dt.year, dt.month, dt.day)
  IN  week_key_format(iso.year, iso.week)

(***************************************************************************)
(* DataFrame.sort_values on one integer column.  The default sort is not   *)
(* stable: rows with equal keys keep their order ("stable") or not; the    *)
(* second outcome is represented by the reverse of their order.            *)
(***************************************************************************)
SortKinds == { "stable", "reversed" }

\* Row i comes before row j in the result.
SortsBefore(keys, kind, i, j) ==
  \/ keys[i] < keys[j]
  \/ /\ keys[i] = keys[j]
     /\ IF kind = "stable" THEN i < j ELSE i > j

\* The sorted rows of df, keys[i] being the key of row i.
sort_values(df, keys, kind) ==
  LET n   == Len(df)
      k   == AsSeq(keys)
      pos == AsSeq([i \in 1..n |->
                1 + Cardinality({ j \in 1..n : SortsBefore(k, kind, j, i) })])
  IN  AsSeq([p \in 1..n |-> df[CHOOSE i \in 1..n : pos[i] = p]])

\* Code points of the characters of a week key.
CharCode ==
  ( " " :> 32 ) @@ ( "-" :> 45 ) @@ ( "W" :> 87 ) @@
  [c \in Range(Digits) |-> 48 + DigitVal(c)]

\* Python's a < b on strings given as character sequences.
RECURSIVE StrLess(_, _)
StrLess(a, b) ==
  IF b = <<>> THEN FALSE
  ELSE IF a = <<>> THEN TRUE
  ELSE IF CharCode[Head(a)] # CharCode[Head(b)]
       THEN CharCode[Head(a)] < CharCode[Head(b)]
  ELSE StrLess(Tail(a), Tail(b))

\* sorted(keys) for a set of strings.
RECURSIVE sorted(_)
sorted(S) ==
  IF S = {} THEN <<>>
  ELSE LET least == CHOOSE a \in S : \A b \in S \ {a} : StrLess(a, b)
       IN  << least >> \o sorted(S \ {least})

\* The distinct elements of s in order of first occurrence.
RECURSIVE Distinct(_)
Distinct(s) ==
  IF s = <<>> THEN <<>>
  ELSE LET front == Distinct(SubSeq(s, 1, Len(s) - 1))
       IN  IF s[Len(s)] \in Range(front) THEN front
           ELSE Append(front, s[Len(s)])

Percentage_inverted(a, b) == IF b > 0 THEN << b * 100, a >> ELSE << 0, 1 >>

\* a / b * 100 with the guard "if b > 0 else 0", as the exact quotient
\* <<numerator, denominator>>.
Percentage(a, b) == IF b > 0 THEN << a * 100, b >> ELSE << 0, 1 >>

(***************************************************************************)
(* The record source.  A record of the CRM has a CloseDate string, a       *)
(* StageName, an optional Loss_Reason__c and the flag last7 telling        *)
(* whether it satisfies CloseDate = LAST_N_DAYS:7; every record satisfies  *)
(* CloseDate = LAST_N_DAYS:91 and the renewal filter.  The three queries   *)
(* return their groups in the order of first occurrence in the collection. *)
(***************************************************************************)
\* SELECT StageName, COUNT(Id) oppCount ... GROUP BY StageName
stage_query(recs) ==
  LET sel   == SelectSeq(recs, LAMBDA r : r.last7)
      names == Distinct([i \in 1..Len(sel) |-> sel[i].StageName])
  IN  [i \in 1..Len(names) |->
         [StageName |-> names[i],
          oppCount  |-> Cardinality({ j \in 1..Len(sel) :
                                        sel[j].StageName = names[i] })]]

\* SELECT Loss_Reason__c, COUNT(Id) reasonCount ... AND StageName =
\* 'Closed Lost' ... GROUP BY Loss_Reason__c ORDER BY COUNT(Id) DESC
loss_reason_query(recs) ==
  LET sel     == SelectSeq(recs, LAMBDA r : r.last7 /\ r.StageName = "Closed Lost")
      reasons == Distinct([i \in 1..Len(sel) |-> sel[i].Loss_Reason])
      groups  == [i \in 1..Len(reasons) |->
                    [Loss_Reason__c |-> reasons[i],
                     reasonCount    |-> Cardinality({ j \in 1..Len(sel) :
                                          sel[j].Loss_Reason = reasons[i] })]]
  IN  sort_values(groups, [i \in 1..Len(groups) |-> 0 - groups[i].reasonCount],
                  "stable")

\* SELECT Id, CloseDate, StageName, Loss_Reason__c ... LAST_N_DAYS:91
all_opps_query(recs) == recs

(***************************************************************************)
(* connect_to_salesforce                                                   *)
(***************************************************************************)
\* The rows appended to stage_data for the query result.
stage_data(stage_results) ==
  [i \in 1..Len(stage_results) |->
     LET stage_name == stage_results[i].StageName
         metadata   == DictGet(get_stage_metadata, stage_name, FallbackMetadata)
     IN  [StageName   |-> stage_name,
          Count       |-> stage_results[i].oppCount,
          Probability |-> metadata.probability,
          Order       |-> metadata.order,
          Category    |-> metadata.category]]

\* "Add any missing stages with count 0": one row appended for each key of
\* stage_metadata that is not among the stage names of df.
add_missing_stages(df) ==
  LET existing_stages == { df[i].StageName : i \in 1..Len(df) }
      missing == SelectSeq(stage_keys, LAMBDA s : s \notin existing_stages)
  IN  df \o [i \in 1..Len(missing) |->
               [StageName   |-> missing[i],
                Count       |-> 0,
                Probability |-> get_stage_metadata[missing[i]].probability,
                Order       |-> get_stage_metadata[missing[i]].order,
                Category    |-> get_stage_metadata[missing[i]].category]]

\* record['Loss_Reason__c'] if record['Loss_Reason__c'] else 'Not Specified'
normalize_reason(r) == IF r = <<>> \/ r = << "" >> THEN "Not Specified" ELSE r[1]

loss_reason_data(loss_reason_results) ==
  [i \in 1..Len(loss_reason_results) |->
     [Loss_Reason |-> normalize_reason(loss_reason_results[i].Loss_Reason__c),
      Count       |-> loss_reason_results[i].reasonCount]]

\* "Add any missing reasons with count 0"
add_missing_reasons(df) ==
  LET existing_reasons == { df[i].Loss_Reason : i \in 1..Len(df) }
      missing == SelectSeq(get_loss_reasons, LAMBDA s : s \notin existing_reasons)
  IN  df \o [i \in 1..Len(missing) |-> [Loss_Reason |-> missing[i], Count |-> 0]]

\* The loop "for stage, counts_by_week in stage_counts_by_week.items()":
\* one column per stage, in the insertion order of the stages, count[s]
\* being counts_by_week.get(week, 0) of stage s.
RECURSIVE add_stage_columns(_, _, _)
add_stage_columns(week_data, stages, count) ==
  IF stages = <<>> THEN week_data
  ELSE add_stage_columns(
         DictSet(week_data, column_name[Head(stages)], count[Head(stages)]),
         Tail(stages), count)

weekly_data_other_keeps_lost(opps) ==
  LET n        == Len(opps)
      key      == AsSeq([i \in 1..n |-> week_key(strptime(opps[i].CloseDate))])
      eligible_by_week ==
        [w \in Range(key) |-> Cardinality({ i \in 1..n : key[i] = w })]
      \* keys of stage_counts_by_week in insertion order
      stages   == Distinct(stage_keys \o [i \in 1..n |-> opps[i].StageName])
      stage_counts_by_week ==
        [s \in Range(stages) |->
           [w \in Range(key) |->
              Cardinality({ i \in 1..n : opps[i].StageName = s /\ key[i] = w })]]
      weeks    == sorted(DOMAIN eligible_by_week)
      row(week) ==
        LET eligible_count    == eligible_by_week[week]
            count             == [s \in Range(stages) |-> stage_counts_by_week[s][week]]
            closed_won_count_   == count["Closed Won"]
            closed_lost_count_  == count["Closed Lost"]
            other_stages_count_ ==
              eligible_count - closed_won_count_
            d0 == ("Week" :> week) @@ ("TotalOpportunities" :> eligible_count)
            d1 == add_stage_columns(d0, stages, count)
            d2 == DictSet(d1, "ClosedWon", closed_won_count_)
            d3 == DictSet(d2, "ClosedLost", closed_lost_count_)
            d4 == DictSet(d3, "OtherStages", other_stages_count_)
        IN  DictSet(d4, "WinRate", Percentage(closed_won_count_, eligible_count))
  IN  [i \in 1..Len(weeks) |-> row(weeks[i])]

\* The weekly trend rows for opportunity records whose close dates parse.
weekly_data(opps) ==
  LET n        == Len(opps)
      key      == AsSeq([i \in 1..n |-> week_key(strptime(opps[i].CloseDate))])
      eligible_by_week ==
        [w \in Range(key) |-> Cardinality({ i \in 1..n : key[i] = w })]
      \* keys of stage_counts_by_week in insertion order
      stages   == Distinct(stage_keys \o [i \in 1..n |-> opps[i].StageName])
      stage_counts_by_week ==
        [s \in Range(stages) |->
           [w \in Range(key) |->
              Cardinality({ i \in 1..n : opps[i].StageName = s /\ key[i] = w })]]
      weeks    == sorted(DOMAIN eligible_by_week)
      row(week) ==
        LET eligible_count    == eligible_by_week[week]
            count             == [s \in Range(stages) |-> stage_counts_by_week[s][week]]
            closed_won_count_   == count["Closed Won"]
            closed_lost_count_  == count["Closed Lost"]
            other_stages_count_ ==
              eligible_count - closed_won_count_ - closed_lost_count_
            d0 == ("Week" :> week) @@ ("TotalOpportunities" :> eligible_count)
            d1 == add_stage_columns(d0, stages, count)
            d2 == DictSet(d1, "ClosedWon", closed_won_count_)
            d3 == DictSet(d2, "ClosedLost", closed_lost_count_)
            d4 == DictSet(d3, "OtherStages", other_stages_count_)
        IN  DictSet(d4, "WinRate", Percentage(closed_won_count_, eligible_count))
  IN  [i \in 1..Len(weeks) |-> row(weeks[i])]

\* The "except Exception as e" branch: st.error(...) and the empty result.
ErrorResult(e) ==
  [stage_df            |-> <<>>,
   loss_reason_df      |-> <<>>,
   weekly_df           |-> <<>>,
   total_opportunities |-> 0,
   closed_won_count    |-> 0,
   closed_lost_count   |-> 0,
   other_stages_count  |-> 0,
   error               |-> e]

\* Sum of Count over the rows of df whose StageName is name.
CountOfStage(df, name) ==
  CountSum(SelectSeq(df, LAMBDA r : r.StageName = name))

summary_lost_by_won_filter(df) ==
  LET total  == CountSum(df)
      won    == CountOfStage(df, "Closed Won")
      lost   == CountOfStage(df, "Closed Won")
  IN  [total_opportunities |-> total,
       closed_won_count    |-> won,
       closed_lost_count   |-> lost,
       other_stages_count  |-> total - won - lost]

\* The summary statistics of lines 313-319.
summary(df) ==
  LET total  == CountSum(df)
      won    == CountOfStage(df, "Closed Won")
      lost   == CountOfStage(df, "Closed Lost")
  IN  [total_opportunities |-> total,
       closed_won_count    |-> won,
       closed_lost_count   |-> lost,
       other_stages_count  |-> total - won - lost]

\* connect_to_salesforce() for the collection recs of the record source;
\* kind_stage and kind_loss are the outcomes of the two sorts on ties.
connect_to_salesforce(recs, kind_stage, kind_loss) ==
  LET stage_rows == stage_data(stage_query(recs))
      loss_rows  == loss_reason_data(loss_reason_query(recs))
      opps       == all_opps_query(recs)
  IN  \* pd.DataFrame([])['StageName'] has no such column
      IF stage_rows = <<>> THEN ErrorResult("KeyError: 'StageName'")
      ELSE IF loss_rows = <<>> THEN ErrorResult("KeyError: 'Loss_Reason'")
      ELSE IF \E i \in 1..Len(opps) : ~ strptime(opps[i].CloseDate).ok
           THEN ErrorResult("ValueError")
      ELSE
        LET filled_s == add_missing_stages(stage_rows)
            sdf == sort_values(filled_s,
                               [i \in 1..Len(filled_s) |-> filled_s[i].Order],
                               kind_stage)
            filled_l == add_missing_reasons(loss_rows)
            ldf == sort_values(filled_l,
                               [i \in 1..Len(filled_l) |-> 0 - filled_l[i].Count],
                               kind_loss)
            s   == summary(sdf)
        IN  [stage_df            |-> sdf,
             loss_reason_df      |-> ldf,
             weekly_df           |-> weekly_data(opps),
             total_opportunities |-> s.total_opportunities,
             closed_won_count    |-> s.closed_won_count,
             closed_lost_count   |-> s.closed_lost_count,
             other_stages_count  |-> s.other_stages_count,
             error               |-> "none"]

(***************************************************************************)
(* The script after the call: scorecard, chart, tables.                    *)
(***************************************************************************)
conversion_data_skipping(stage_df_sorted) ==
  LET stages_list == [i \in 1..Len(stage_df_sorted) |-> stage_df_sorted[i].StageName]
      first_count(name) ==
        SelectSeq(stage_df_sorted, LAMBDA r : r.StageName = name)[1].Count
  IN  [i \in 1..(Len(stages_list) - 1) |->
         LET current_stage == stages_list[i]
             next_stage    == stages_list[IF i + 2 <= Len(stages_list)
                                          THEN i + 2 ELSE i + 1]
             current_count == first_count(current_stage)
             next_count    == first_count(next_stage)
         IN  [From_Stage      |-> current_stage,
              To_Stage        |-> next_stage,
              From_Count      |-> current_count,
              To_Count        |-> next_count,
              Conversion_Rate |-> Percentage(next_count, current_count)]]

\* The rows of the "Conversion Analysis" table for the sorted stage rows;
\* 'Conversion Rate' is kept as the quotient that is then formatted.
conversion_data(stage_df_sorted) ==
  LET stages_list == [i \in 1..Len(stage_df_sorted) |-> stage_df_sorted[i].StageName]
      first_count(name) ==
        SelectSeq(stage_df_sorted, LAMBDA r : r.StageName = name)[1].Count
  IN  [i \in 1..(Len(stages_list) - 1) |->
         LET current_stage == stages_list[i]
             next_stage    == stages_list[i + 1]
             current_count == first_count(current_stage)
             next_count    == first_count(next_stage)
         IN  [From_Stage      |-> current_stage,
              To_Stage        |-> next_stage,
              From_Count      |-> current_count,
              To_Count        |-> next_count,
              Conversion_Rate |-> Percentage(next_count, current_count)]]

\* stage_sorter: "1", "2" or "3" + stage_name, as its rank among the sort
\* keys of the model's stage names.
stage_sorter(stage_name) ==
  IF stage_name = "Closed Won" THEN 1
  ELSE IF stage_name = "Closed Lost" THEN 2
  ELSE 2 + StrRank(stage_name)

ChartTypes ==
  { "Status Distribution", "Closed Won vs Closed Lost", "Pipeline by Stage",
    "Weekly Trend", "Loss Reasons", "Win Rate Gauge", "Stage Progression" }

(***************************************************************************)
(* The collections of the record source.                                   *)
(***************************************************************************)
\* 'YYYY-MM-DD' as the CRM writes a date field.
DateString(y, m, d) ==
  DecimalStr(y) \o << "-" >>
    \o (IF m < 10 THEN << "0" >> ELSE << >>) \o DecimalStr(m) \o << "-" >>
    \o (IF d < 10 THEN << "0" >> ELSE << >>) \o DecimalStr(d)

Opportunity(date, stage, reason, in7) ==
  [CloseDate |-> date, StageName |-> stage, Loss_Reason |-> reason, last7 |-> in7]

\* The kinds of record of the main runs: won, lost with a listed reason,
\* with no reason and with an unlisted reason, open, two stages outside
\* the catalog, a close date that is no calendar date, and a record older
\* than seven days.
RecordPool ==
  { Opportunity(DateString(2024, 12, 31), "Closed Won", <<>>, TRUE),
    Opportunity(DateString(2025, 1, 5), "Closed Lost", << "Rate" >>, TRUE),
    Opportunity(DateString(2025, 1, 6), "Closed Lost", <<>>, TRUE),
    Opportunity(DateString(2025, 1, 6), "Closed Lost", << "Price" >>, TRUE),
    Opportunity(DateString(2025, 1, 5), "Rating", <<>>, TRUE),
    Opportunity(DateString(2025, 1, 6), "Quote-to-Bind", <<>>, TRUE),
    Opportunity(DateString(2025, 1, 6), "ClosedWon", <<>>, TRUE),
    Opportunity(DateString(2025, 2, 30), "Closed Won", <<>>, TRUE),
    Opportunity(DateString(2024, 12, 29), "Closed Lost", << "Rate" >>, FALSE) }

RecordSeqs(n) == UNION { [1..k -> RecordPool] : k \in 0..n }

Init ==
  /\ records \in RecordSeqs(MaxRecords)
  /\ pc = "connect"
  /\ stage_df = <<>>
  /\ loss_reason_df = <<>>
  /\ weekly_df = <<>>
  /\ total_opportunities = 0
  /\ closed_won_count = 0
  /\ closed_lost_count = 0
  /\ other_stages_count = 0
  /\ error = "none"
  /\ win_rate = << 0, 1 >>
  /\ chart_type = "none"
  /\ conversion_df = <<>>

\* Line 347: the call of connect_to_salesforce and the unpacking of its result.
ConnectToSalesforce ==
  /\ pc = "connect"
  /\ \E kind_stage \in SortKinds, kind_loss \in SortKinds :
       \E out \in { connect_to_salesforce(records, kind_stage, kind_loss) } :
       /\ stage_df' = out.stage_df
       /\ loss_reason_df' = out.loss_reason_df
       /\ weekly_df' = out.weekly_df
       /\ total_opportunities' = out.total_opportunities
       /\ closed_won_count' = out.closed_won_count
       /\ closed_lost_count' = out.closed_lost_count
       /\ other_stages_count' = out.other_stages_count
       /\ error' = out.error
  /\ pc' = "scorecard"
  /\ UNCHANGED << records, win_rate, chart_type, conversion_df >>

\* Lines 349-361: the scorecard and its win rate.
Scorecard ==
  /\ pc = "scorecard"
  /\ win_rate' = Percentage(closed_won_count, total_opportunities)
  /\ pc' = "chart"
  /\ UNCHANGED << records, stage_df, loss_reason_df, weekly_df,
                  total_opportunities, closed_won_count, closed_lost_count,
                  other_stages_count, error, chart_type, conversion_df >>

\* Lines 512-556: the gauge and, for a non-empty stage table, the
\* conversion table.
ChartWinRateGauge ==
  /\ pc = "chart"
  /\ chart_type' = "Win Rate Gauge"
  /\ IF stage_df # <<>>
     THEN \E kind \in SortKinds :
            conversion_df' =
              conversion_data(
                sort_values(stage_df,
                            [i \in 1..Len(stage_df) |-> stage_df[i].Order], kind))
     ELSE conversion_df' = conversion_df
  /\ pc' = "tables"
  /\ UNCHANGED << records, stage_df, loss_reason_df, weekly_df,
                  total_opportunities, closed_won_count, closed_lost_count,
                  other_stages_count, error, win_rate >>

\* The other chart types only draw.
ChartOther ==
  /\ pc = "chart"
  /\ chart_type' \in ChartTypes \ { "Win Rate Gauge" }
  /\ pc' = "tables"
  /\ UNCHANGED << records, stage_df, loss_reason_df, weekly_df,
                  total_opportunities, closed_won_count, closed_lost_count,
                  other_stages_count, error, win_rate, conversion_df >>

\* Lines 578-592: "Opportunities by Stage" re-sorts the global stage_df by
\* SortKey (the keys are distinct, so the sort has one outcome).
ShowTables ==
  /\ pc = "tables"
  /\ stage_df' =
       IF stage_df # <<>>
       THEN sort_values(stage_df,
                        [i \in 1..Len(stage_df) |-> stage_sorter(stage_df[i].StageName)],
                        "stable")
       ELSE stage_df
  /\ pc' = "done"
  /\ UNCHANGED << records, loss_reason_df, weekly_df,
                  total_opportunities, closed_won_count, closed_lost_count,
                  other_stages_count, error, win_rate, chart_type,
                  conversion_df >>

Next ==
  \/ ConnectToSalesforce
  \/ Scorecard
  \/ ChartWinRateGauge
  \/ ChartOther
  \/ ShowTables

Spec == Init /\ [][Next]_vars

(***************************************************************************)
(* The runs over single close dates: one Closed Lost opportunity of the    *)
(* last seven days for every calendar date of DateYears.                   *)
(***************************************************************************)
InitWeek ==
  /\ \E y \in DateYears, m \in 1..12 :
       \E d \in 1..DaysInMonth(y, m) :
         records = << Opportunity(DateString(y, m, d), "Closed Lost",
                                  << "Rate" >>, TRUE) >>
  /\ pc = "connect"
  /\ stage_df = <<>>
  /\ loss_reason_df = <<>>
  /\ weekly_df = <<>>
  /\ total_opportunities = 0
  /\ closed_won_count = 0
  /\ closed_lost_count = 0
  /\ other_stages_count = 0
  /\ error = "none"
  /\ win_rate = << 0, 1 >>
  /\ chart_type = "none"
  /\ conversion_df = <<>>

SpecWeek == InitWeek /\ [][Next]_vars

(***************************************************************************)
(* Properties.                                                             *)
(***************************************************************************)
\* connect_to_salesforce has returned.
Connected == pc # "connect"

\* The table is the one connect_to_salesforce returned (not yet re-sorted).
AsReturned == pc \in { "scorecard", "chart", "tables" }

\* The records the stage query counts, and those among them of a stage.
InLast7(i) == records[i].last7

NumWithStage(s) ==
  Cardinality({ i \in 1..Len(records) : InLast7(i) /\ records[i].StageName = s })

NumLast7 == Cardinality({ i \in 1..Len(records) : InLast7(i) })

\* The Closed Lost records of the loss-reason query and their reasons.
IsLost(i) == InLast7(i) /\ records[i].StageName = "Closed Lost"

ReasonOf(i) ==
  IF records[i].Loss_Reason \in { <<>>, << "" >> } THEN "Not Specified"
  ELSE records[i].Loss_Reason[1]

NumWithReason(x) ==
  Cardinality({ i \in 1..Len(records) : IsLost(i) /\ ReasonOf(i) = x })

ObservedReasons == { ReasonOf(i) : i \in { j \in 1..Len(records) : IsLost(j) } }

\* The close date of record i is written as a calendar date.
WellFormed(i) == strptime(records[i].CloseDate).ok

\* C1: for every input the stage-count table has exactly one row for each
\* of the 12 catalog stages and no other row, with the count of the
\* stage's records (0 for a stage without records).
C1_StageTableIsCatalog ==
  Connected =>
    /\ Len(stage_df) = Len(stage_keys)
    /\ \A s \in Range(stage_keys) :
         \E i \in 1..Len(stage_df) :
           /\ stage_df[i].StageName = s
           /\ stage_df[i].Count = NumWithStage(s)

\* C2: the counts of the stage-count table sum to the number of input
\* records, and the records of a stage outside the catalog are counted in
\* a fallback row (probability 0, order 99, category Unknown).
C2_CountConservation ==
  Connected =>
    /\ CountSum(stage_df) = NumLast7
    /\ \A s \in Range(UnknownStages) :
         NumWithStage(s) > 0 =>
           \E i \in 1..Len(stage_df) :
             stage_df[i] = [StageName |-> s, Count |-> NumWithStage(s),
                            Probability |-> 0, Order |-> 99,
                            Category |-> "Unknown"]

\* C3: when a record's close date is no calendar date and the remaining
\* records aggregate, the call does not fail and returns the tables of the
\* remaining records.
C3_MalformedRecordRejectedAlone ==
  LET good == SelectSeq(records, LAMBDA r : strptime(r.CloseDate).ok) IN
  ( /\ Connected
    /\ \E i \in 1..Len(records) : ~ WellFormed(i)
    /\ connect_to_salesforce(good, "stable", "stable").error = "none" )
  =>
    /\ error = "none"
    /\ \E k1 \in SortKinds, k2 \in SortKinds :
         LET out == connect_to_salesforce(good, k1, k2) IN
         /\ CountSum(stage_df) = CountSum(out.stage_df)
         /\ CountSum(loss_reason_df) = CountSum(out.loss_reason_df)
         /\ weekly_df = out.weekly_df

\* C4: for the empty collection the call returns, without the error path,
\* a stage table with every catalog stage at count 0 and a loss-reason
\* table with every listed reason at count 0, and all KPIs and the win
\* rate are 0.
C4_EmptyInputZeroFilled ==
  ( Connected /\ records = <<>> ) =>
    /\ error = "none"
    /\ { stage_df[i].StageName : i \in 1..Len(stage_df) } = Range(stage_keys)
    /\ { loss_reason_df[i].Loss_Reason : i \in 1..Len(loss_reason_df) }
         = Range(get_loss_reasons)
    /\ \A i \in 1..Len(stage_df) : stage_df[i].Count = 0
    /\ \A i \in 1..Len(loss_reason_df) : loss_reason_df[i].Count = 0
    /\ total_opportunities = 0
    /\ closed_won_count = 0
    /\ closed_lost_count = 0
    /\ other_stages_count = 0
    /\ win_rate[1] = 0

(***************************************************************************)
(* ISO 8601 week numbering, stated from the rule: weeks start on Monday    *)
(* and a week belongs to the year that holds its Thursday.                 *)
(***************************************************************************)
\* Number of days of year y.
DaysInYear(y) == IF IsLeap(y) THEN 366 ELSE 365

\* Day of the year of a date, 1 for January 1st.
DayOfYear(y, m, d) ==
  d + SumSeq([k \in 1..(m - 1) |-> DaysInMonth(y, k)])

\* Days from 2020-01-01 (a Wednesday) to the date, for y >= 2020.
DayNumber(y, m, d) ==
  SumSeq([k \in 1..(y - 2020) |-> DaysInYear(2019 + k)]) + DayOfYear(y, m, d) - 1

\* 1 for Monday .. 7 for Sunday.
WeekdayOf(y, m, d) == ((DayNumber(y, m, d) + 2) % 7) + 1

\* The ISO year and week of a date: those of the Thursday of its week.
IsoWeekOf(y, m, d) ==
  LET t == DayOfYear(y, m, d) + (4 - WeekdayOf(y, m, d))  \* Thursday, in days of y
  IN  IF t < 1
      THEN [year |-> y - 1, week |-> ((t + DaysInYear(y - 1) - 1) \div 7) + 1]
      ELSE IF t > DaysInYear(y)
      THEN [year |-> y + 1, week |-> ((t - DaysInYear(y) - 1) \div 7) + 1]
      ELSE [year |-> y, week |-> ((t - 1) \div 7) + 1]

\* The year, month and day written in a 'YYYY-MM-DD' string.
WrittenYear(s) == DecimalVal(SubSeq(s, 1, 4))

WrittenMonth(s) == DecimalVal(SubSeq(s, 6, 7))

WrittenDay(s) == DecimalVal(SubSeq(s, 9, 10))

\* Date a is not after date b, both triples <<year, month, day>>.
DateLeq(a, b) ==
  \/ a[1] < b[1]
  \/ a[1] = b[1] /\ a[2] < b[2]
  \/ a[1] = b[1] /\ a[2] = b[2] /\ a[3] <= b[3]

\* The key is "YYYY-Www" for the year yy and the week ww.
IsKeyOf(key, yy, ww) ==
  /\ Len(key) = 8
  /\ \A i \in { 1, 2, 3, 4, 7, 8 } : IsDigit(key[i])
  /\ key[5] = "-"
  /\ key[6] = "W"
  /\ DecimalVal(SubSeq(key, 1, 4)) = yy
  /\ DecimalVal(SubSeq(key, 7, 8)) = ww

\* C5: the weekly bucket key of a record is "YYYY-Www" for the ISO 8601
\* week-numbering year and the zero-padded ISO week of its close date;
\* 2024-12-31 and 2025-01-05 give 2025-W01, 2025-01-06 gives 2025-W02, and
\* every date in a range of get_iso_week_calendar gives that week of 2025.
C5_IsoWeekKey ==
  Connected =>
    LET s   == records[1].CloseDate
        y   == WrittenYear(s)
        m   == WrittenMonth(s)
        d   == WrittenDay(s)
        iso == IsoWeekOf(y, m, d)
    IN  /\ error = "none"
        /\ Len(weekly_df) = 1
        /\ IsKeyOf(weekly_df[1]["Week"], iso.year, iso.week)
        /\ << y, m, d >> = << 2024, 12, 31 >> =>
             weekly_df[1]["Week"] = << "2", "0", "2", "5", "-", "W", "0", "1" >>
        /\ << y, m, d >> = << 2025, 1, 5 >> =>
             weekly_df[1]["Week"] = << "2", "0", "2", "5", "-", "W", "0", "1" >>
        /\ << y, m, d >> = << 2025, 1, 6 >> =>
             weekly_df[1]["Week"] = << "2", "0", "2", "5", "-", "W", "0", "2" >>
        /\ \A w \in 1..Len(iso_weeks) :
             ( DateLeq(iso_weeks[w].from, << y, m, d >>)
               /\ DateLeq(<< y, m, d >>, iso_weeks[w].to) )
             => IsKeyOf(weekly_df[1]["Week"], 2025, w)

\* A record closed on 2024-12-31 has been put in the bucket 2025-W01.
C5_Witness ==
  /\ Connected
  /\ records[1].CloseDate = DateString(2024, 12, 31)
  /\ Len(weekly_df) = 1
  /\ weekly_df[1]["Week"] = << "2", "0", "2", "5", "-", "W", "0", "1" >>
  /\ weekly_df[1]["TotalOpportunities"] = 1

\* Sum of Count over the rows of df of a category.
CountOfCategory(df, c) == CountSum(SelectSeq(df, LAMBDA r : r.Category = c))

\* C6: total is the sum of all counts of the stage-count table, closedWon
\* and closedLost are the sums over the rows of category Closed-Won and
\* Closed-Lost, otherStages = total - closedWon - closedLost, and the win
\* rate is closedWon / total * 100, or 0 when total is 0.
C6_SummaryKPIs ==
  Connected =>
    /\ total_opportunities = CountSum(stage_df)
    /\ closed_won_count = CountOfCategory(stage_df, "Closed/Won")
    /\ closed_lost_count = CountOfCategory(stage_df, "Closed/Lost")
    /\ other_stages_count
         = total_opportunities - closed_won_count - closed_lost_count
    /\ pc # "scorecard" =>
         /\ win_rate[2] > 0
         /\ IF total_opportunities > 0
            THEN win_rate[1] * total_opportunities
                   = closed_won_count * 100 * win_rate[2]
            ELSE win_rate[1] = 0

\* One won, one lost and one other record: the scorecard shows total 3,
\* won 1, lost 1, other 1 and a win rate of 100 / 3.
C6_Witness ==
  /\ pc = "chart"
  /\ total_opportunities = 3
  /\ closed_won_count = 1
  /\ closed_lost_count = 1
  /\ other_stages_count = 1
  /\ win_rate[1] * 3 = 100 * win_rate[2]

\* C7: for a collection whose stage query returns rows and whose close
\* dates are calendar dates, the loss-reason table has exactly one row for
\* each reason that is listed by get_loss_reasons or observed (a missing or
\* empty reason being "Not Specified"), each with its true count, 0 for an
\* unobserved listed reason, and the counts sum to the number of Closed
\* Lost records.
C7_LossReasonContent ==
  ( /\ Connected
    /\ NumLast7 > 0
    /\ \A i \in 1..Len(records) : WellFormed(i) )
  =>
    LET expected == Range(get_loss_reasons) \cup ObservedReasons IN
    /\ Len(loss_reason_df) = Cardinality(expected)
    /\ \A x \in expected :
         \E i \in 1..Len(loss_reason_df) :
           /\ loss_reason_df[i].Loss_Reason = x
           /\ loss_reason_df[i].Count = NumWithReason(x)
    /\ CountSum(loss_reason_df)
         = Cardinality({ i \in 1..Len(records) : IsLost(i) })

\* C8: the stage-count table is in ascending order of Order, and rows of
\* equal Order are in the order of their stage names.
C8_StageOrderDeterministic ==
  AsReturned =>
    \A i \in 1..Len(stage_df) : \A j \in (i + 1)..Len(stage_df) :
      \/ stage_df[i].Order < stage_df[j].Order
      \/ /\ stage_df[i].Order = stage_df[j].Order
         /\ StrRank(stage_df[i].StageName) < StrRank(stage_df[j].StageName)

\* C9: the loss-reason table is in descending order of Count, and rows of
\* equal Count are in the order of their reason strings.
C9_LossOrderDeterministic ==
  Connected =>
    \A i \in 1..Len(loss_reason_df) : \A j \in (i + 1)..Len(loss_reason_df) :
      \/ loss_reason_df[i].Count > loss_reason_df[j].Count
      \/ /\ loss_reason_df[i].Count = loss_reason_df[j].Count
         /\ StrRank(loss_reason_df[i].Loss_Reason)
              < StrRank(loss_reason_df[j].Loss_Reason)

\* The "Win Rate Gauge" chart has drawn its conversion table.
ConversionDrawn ==
  /\ pc \in { "tables", "done" }
  /\ chart_type = "Win Rate Gauge"
  /\ stage_df # <<>>

\* The row of the stage-count table for a stage name.
StageRow(name) ==
  stage_df[CHOOSE i \in 1..Len(stage_df) : stage_df[i].StageName = name]

\* C10: the conversion table has one row for each pair of consecutive rows
\* of the stage-count table sorted ascending by Order, and for no other
\* pair: the rows chain through all stages, no stage lies strictly between
\* the two stages of a row, fromCount and toCount are the counts of the two
\* stages and conversionRate is toCount / fromCount * 100, or 0 when
\* fromCount is 0.
C10_ConversionPairs ==
  ConversionDrawn =>
    LET n == Len(conversion_df) IN
    /\ n = Len(stage_df) - 1
    /\ { conversion_df[i].From_Stage : i \in 1..n } \cup { conversion_df[n].To_Stage }
         = { stage_df[i].StageName : i \in 1..Len(stage_df) }
    /\ \A i \in 1..(n - 1) : conversion_df[i].To_Stage = conversion_df[i + 1].From_Stage
    /\ \A i \in 1..n :
         LET c    == conversion_df[i]
             from == StageRow(c.From_Stage)
             to   == StageRow(c.To_Stage)
         IN  /\ from.Order <= to.Order
             /\ \A k \in 1..Len(stage_df) :
                  ~ ( from.Order < stage_df[k].Order /\ stage_df[k].Order < to.Order )
             /\ c.From_Count = from.Count
             /\ c.To_Count = to.Count
             /\ c.Conversion_Rate[2] > 0
             /\ IF c.From_Count > 0
                THEN c.Conversion_Rate[1] * c.From_Count
                       = c.To_Count * 100 * c.Conversion_Rate[2]
                ELSE c.Conversion_Rate[1] = 0

\* The conversion table holds the row from Closed Won with count 1 to
\* Closed Lost with count 2 at the rate 200, and a row from a stage with
\* count 0 to a stage with a count at the rate 0.
C10_Witness ==
  /\ ConversionDrawn
  /\ \E i \in 1..Len(conversion_df) :
       /\ conversion_df[i].From_Stage = "Closed Won"
       /\ conversion_df[i].To_Stage = "Closed Lost"
       /\ conversion_df[i].From_Count = 1
       /\ conversion_df[i].To_Count = 2
       /\ conversion_df[i].Conversion_Rate = << 200, 1 >>
  /\ \E i \in 1..Len(conversion_df) :
       /\ conversion_df[i].From_Count = 0
       /\ conversion_df[i].To_Count > 0
       /\ conversion_df[i].Conversion_Rate[1] = 0

\* The close date of record i falls in the ISO week written by key.
InWeek(i, key) ==
  LET s   == records[i].CloseDate
      iso == IsoWeekOf(WrittenYear(s), WrittenMonth(s), WrittenDay(s))
  IN  IsKeyOf(key, iso.year, iso.week)

\* Number of records of the week whose stage satisfies P.
NumInWeek(key, P(_)) ==
  Cardinality({ i \in 1..Len(records) : InWeek(i, key) /\ P(records[i].StageName) })

\* The category a stage name resolves to in the catalog.
CategoryOf(s) == DictGet(get_stage_metadata, s, FallbackMetadata).category

IsPercentage(q) == q[2] > 0 /\ 0 <= q[1] /\ q[1] <= 100 * q[2]

\* C12: the WinRate of every emitted weekly bucket and the win rate of the
\* scorecard lie between 0 and 100, and 0 <= ClosedWon <= Total holds in
\* every bucket and in the summary.
C12_WinRateBound ==
  Connected =>
    /\ \A k \in 1..Len(weekly_df) :
         /\ IsPercentage(weekly_df[k]["WinRate"])
         /\ 0 <= weekly_df[k]["ClosedWon"]
         /\ weekly_df[k]["ClosedWon"] <= weekly_df[k]["TotalOpportunities"]
    /\ 0 <= closed_won_count
    /\ closed_won_count <= total_opportunities
    /\ pc # "scorecard" => IsPercentage(win_rate)

\* The scorecard shows a win rate of 50 for one won record of two, and the
\* weekly table has a week at the rate 100 and a week at the rate 0.
C12_Witness ==
  /\ pc = "chart"
  /\ total_opportunities = 2
  /\ closed_won_count = 1
  /\ win_rate[1] = 50 * win_rate[2]
  /\ \E k \in 1..Len(weekly_df) :
       /\ weekly_df[k]["ClosedWon"] = 1
       /\ weekly_df[k]["WinRate"][1] = 100 * weekly_df[k]["WinRate"][2]
  /\ \E k \in 1..Len(weekly_df) :
       /\ weekly_df[k]["TotalOpportunities"] = 1
       /\ weekly_df[k]["WinRate"][1] = 0

\* The stage names of the catalog and of the records.
ObservedStages ==
  Range(stage_keys) \cup { records[i].StageName : i \in 1..Len(records) }

\* The columns of a weekly row that are not per-stage columns.
FixedColumns ==
  { "Week", "TotalOpportunities", "ClosedWon", "ClosedLost", "OtherStages",
    "WinRate" }

\* Sum of the values of the columns cols of a row.
RECURSIVE SumOfColumns(_, _)
SumOfColumns(row, cols) ==
  IF cols = {} THEN 0
  ELSE LET c == CHOOSE x \in cols : TRUE
       IN  row[c] + SumOfColumns(row, cols \ {c})

\* C13: in every weekly row each observed stage name has its own column
\* holding the number of the week's records of that stage: no two stage
\* names share a column, no per-stage column is one of the derived
\* columns, and the per-stage columns of a row sum to TotalOpportunities.
C13_PerStageColumns ==
  Connected =>
    \A k \in 1..Len(weekly_df) :
      LET row   == weekly_df[k]
          week  == row["Week"]
          stage_columns == (DOMAIN row) \ FixedColumns
      IN  /\ \A s \in ObservedStages :
               /\ column_name[s] \in stage_columns
               /\ row[column_name[s]] = NumInWeek(week, LAMBDA x : x = s)
               /\ \A s2 \in ObservedStages :
                    s2 # s => column_name[s2] # column_name[s]
          /\ SumOfColumns(row, stage_columns) = row["TotalOpportunities"]

====
